---- MODULE Spec2Model ----
(***************************************************************************)
(* The autonomous incident-resolution loop of integraite:                  *)
(*   - DatabaseSREAgent (app/services/agent_executor.py): the REASON/ACT   *)
(*     loop that writes AgentExecution and AgentTimelineEntry rows;        *)
(*   - the trigger endpoint and background task of                         *)
(*     app/api/v1/endpoints/sre_agent_bkp.py, which write                  *)
(*     sre_incident_execution rows;                                        *)
(*   - the remote-command and ticket-closure tools.                        *)
(* Each part has its own specification over the shared variable list; a    *)
(* specification leaves the other parts' variables unchanged.              *)
(***************************************************************************)
EXTENDS Integers, Sequences, FiniteSets, Bags, TLC

VARIABLES
    \* ---- DatabaseSREAgent (agent_executor.py) ----
    pc,                 \* position inside execute_incident_resolution
    step_counter,       \* self.step_counter
    current_execution,  \* self.current_execution (row id, 0 = None)
    agent_executions,   \* committed AgentExecution rows, index = id
    agent_timeline,     \* committed AgentTimelineEntry rows, in creation order
    messages,           \* the MessagesState transcript of the current run: the
                        \* kind of each message, in order
    last_message,       \* the latest oracle response, in full
    step_count,         \* local step_count of the astream loop
    turns,              \* REASON turns taken in the current run (history)
    total_turns,        \* REASON turns taken by the agent object (history)
    total_calls,        \* tool calls requested of the agent object (history)
    tools_run,          \* tool calls executed by the last executor turn (history)
    in_flight_peak,     \* most remote commands in flight at once in that turn (history)
    oracle,             \* which oracle the run talks to
    ssh_configured,     \* agent_config.configuration['ssh'] has username and key
    store_up,           \* the ledger store accepts commits
    \* ---- trigger endpoint and background task (sre_agent_bkp.py) ----
    executions,         \* committed sre_incident_execution rows, index = id
    requests,           \* bag of the trigger handlers between lookup and answer
    tasks,              \* bag of the background tasks added and not yet ended
    triggers,           \* number of trigger requests received
    last_response,      \* the answer of the trigger handler that answered last
    \* ---- the remote-command tools (self_healing_sre_agent.py, sre_agent_bkp.py) ----
    settings,           \* the configuration the tools read
    ssh_calls,          \* number of remote-command calls made
    ssh_call,           \* the last remote-command call and what it did
    \* ---- the query service (sre_execution_service.py) ----
    sre_timeline,       \* statuses of the sre_timeline_entry rows of one execution
    has_agent_name,     \* the execution row carries an agent_name
    sre_hypotheses,     \* confidence_score of the sre_hypothesis rows (<<>> for NULL)
    sre_status,         \* status of the sre_incident_execution row queried
    projection,         \* what the last query of the service returned
    \* ---- the live trigger endpoint and its background run (sre_agent.py) ----
    clock,              \* int(time.time()), in seconds
    live_responses,     \* the answers of trigger_sre_agent, in order
    live_tasks,         \* the background runs added, in order
    \* ---- SREAgent: the graph of the live background run (self_healing_sre_agent.py) ----
    sre_pc,             \* the node the graph is at: "agent", "executor", or "end"
    sre_messages,       \* the transcript of the graph
    sre_route,          \* what should_continue returned after the last oracle turn
    sre_turns,          \* oracle turns taken
    sre_sent,           \* the message list the last oracle turn sent to the oracle
    \* ---- IncidentLogger and the runs that log with it (self_healing_sre_agent.py, sre_agent.py) ----
    log_file,           \* the array of incident records in incident_logs.json
    loggers             \* per background run: its position and its IncidentLogger

agentVars == <<pc, step_counter, current_execution, agent_executions,
               agent_timeline, messages, last_message, step_count, turns,
               total_turns, total_calls, tools_run, in_flight_peak, oracle, ssh_configured,
               store_up>>

ledgerVars == <<executions, requests, tasks, triggers, last_response>>

toolVars == <<settings, ssh_calls, ssh_call>>

queryVars == <<sre_timeline, has_agent_name, sre_hypotheses, sre_status, projection>>

liveVars == <<clock, live_responses, live_tasks>>

sreVars == <<sre_pc, sre_messages, sre_route, sre_turns, sre_sent>>

logVars == <<log_file, loggers>>

vars == <<agentVars, ledgerVars, toolVars, queryVars, liveVars, sreVars, logVars>>

notAgentVars == <<ledgerVars, toolVars, queryVars, liveVars, sreVars, logVars>>

notLedgerVars == <<agentVars, toolVars, queryVars, liveVars, sreVars, logVars>>

notToolVars == <<agentVars, ledgerVars, queryVars, liveVars, sreVars, logVars>>

notQueryVars == <<agentVars, ledgerVars, toolVars, liveVars, sreVars, logVars>>

notLiveVars == <<agentVars, ledgerVars, toolVars, queryVars, sreVars, logVars>>

notSreVars == <<agentVars, ledgerVars, toolVars, queryVars, liveVars, logVars>>

notLogVars == <<agentVars, ledgerVars, toolVars, queryVars, liveVars, sreVars>>

-----------------------------------------------------------------------------
(* Bounds of the model *)
MaxTurns == 3        \* REASON turns of one agent object under the free oracle
MaxToolCalls == 2    \* tool calls the free oracle requests of one agent object
MaxExecutions == 2   \* runs of execute_incident_resolution on one agent object
NumIncidents == 1    \* incident numbers the trigger requests name
MaxTriggers == 3     \* trigger requests received
MaxLoopTurns == 2    \* REASON turns of one background task
MaxSshCalls == 2     \* remote-command calls made against one configuration
MaxEntries == 4      \* sre_timeline_entry rows of the execution queried
MaxHypotheses == 2   \* sre_hypothesis rows of the execution queried
MaxSreTurns == 2      \* oracle turns of one SREAgent graph run
MaxLiveTriggers == 2 \* requests the live trigger endpoint receives
NumLoggers == 2      \* background runs that log to the incident log file
MaxLogSteps == 1     \* workflow steps one run logs before its stream ends

(* Program constants *)
StepCeiling == 20    \* should_continue: self.step_counter < 20
EventLimit == 50     \* execute_incident_resolution: step_count > 50
DefaultConfidence == 85   \* the detail projection: avg_confidence without scores

-----------------------------------------------------------------------------
(* Values *)

ToolNames == {"execute_ssh_command", "close_ticket"}

\* The oracles: "free" answers anything (its agent takes at most MaxTurns
\* REASON turns); "always_tool" requests one remote command on every turn;
\* "never_resolve" answers with a narrative that holds no resolution phrase
\* and no tool request.
Oracles == {"free", "always_tool", "never_resolve"}

RECURSIVE SeqsUpTo(_, _)
SeqsUpTo(S, n) ==
    IF n = 0 THEN {<<>>}
    ELSE LET shorter == SeqsUpTo(S, n - 1)
         IN  shorter \cup {Append(q, x) : q \in {r \in shorter : Len(r) = n - 1}, x \in S}

\* An oracle response: the tool calls it requests and whether its narrative
\* holds one of the completion indicators of should_continue.
AIMessage(calls, ind) == [tool_calls |-> calls, indicator |-> ind]

NoMessage == AIMessage(<<>>, FALSE)

\* What llm_with_tools.invoke may return to the given oracle.
Responses(o, budget) ==
    CASE o = "always_tool" -> {AIMessage(<<"execute_ssh_command">>, FALSE)}
      [] o = "never_resolve" -> {AIMessage(<<>>, FALSE)}
      [] OTHER -> {AIMessage(c, i) : c \in SeqsUpTo(ToolNames, budget),
                                     i \in BOOLEAN}

\* How one remote command may end.
SshOutcomes(o) ==
    IF o = "free"
    THEN {"connect_fail", "exit_zero", "exit_nonzero", "exec_fail"}
    ELSE {"exit_zero"}

-----------------------------------------------------------------------------
(* DatabaseSREAgent: the ledger writers *)

\* _add_timeline_entry: the counter moves first, then the row is committed;
\* with the store down the commit raises and no row is written.
AddTimelineEntry(s, action_type) ==
    [s EXCEPT !.step_counter = @ + 1,
              !.raised = ~s.store_up,
              !.timeline =
                  IF s.store_up
                  THEN Append(@, [execution_id |-> s.current_execution,
                                  step_number |-> s.step_counter + 1,
                                  action_type |-> action_type,
                                  success |-> "null"])
                  ELSE @]

\* An agent whose _latest_entry_id attribute would be set.
LatestEntryIdSet == TRUE

\* hasattr(self, '_latest_entry_id'): no code of the class sets the attribute.
HasLatestEntryId == FALSE

\* _update_latest_timeline_entry: the row of the current execution whose
\* step_number is the counter gets the result fields.
UpdateLatestTimelineEntry(s, success) ==
    IF HasLatestEntryId /\ s.store_up
    THEN [s EXCEPT !.timeline =
            [i \in DOMAIN @ |->
                IF /\ @[i].execution_id = s.current_execution
                   /\ @[i].step_number = s.step_counter
                THEN [@[i] EXCEPT !.success = success]
                ELSE @[i]]]
    ELSE s

\* _execute_ssh_command_impl: the result text is an error text or an output.
ExecuteSshCommandImpl(s, outcome) ==
    IF ~s.ssh_configured
    THEN [s EXCEPT !.result = "error"]
    ELSE IF outcome = "connect_fail"
    THEN [UpdateLatestTimelineEntry(s, "false") EXCEPT !.result = "error"]
    ELSE LET added == AddTimelineEntry(s, "command")
         IN  IF added.raised
             THEN [UpdateLatestTimelineEntry([added EXCEPT !.raised = FALSE], "false")
                       EXCEPT !.result = "error"]
             ELSE IF outcome = "exec_fail"
             THEN [UpdateLatestTimelineEntry(added, "false") EXCEPT !.result = "error"]
             ELSE [UpdateLatestTimelineEntry(added,
                       IF outcome = "exit_zero" THEN "true" ELSE "false")
                       EXCEPT !.result = "output"]

\* _execute_ssh_command_impl is entered: one more remote command in flight.
Called(s) ==
    [s EXCEPT !.in_flight = @ + 1,
              !.peak = IF s.in_flight + 1 > @ THEN s.in_flight + 1 ELSE @]

\* A loop that would go on to the next tool call without waiting.
NotAwaited(s) == s

\* await: the loop goes on only when the call has returned.
Awaited(s) == [s EXCEPT !.in_flight = @ - 1]

\* executor_node: the for loop over last_message.tool_calls.
RECURSIVE RunToolCalls(_, _, _, _)
RunToolCalls(s, calls, outcomes, i) ==
    IF i > Len(calls) THEN s
    ELSE IF calls[i] = "execute_ssh_command"
    THEN LET r == Awaited(ExecuteSshCommandImpl(Called(s), outcomes[i]))
         IN  RunToolCalls([r EXCEPT !.responses = Append(@, IF r.result = "error"
                                                                  THEN "tool_error"
                                                                  ELSE "tool_output"),
                                    !.ran = @ + 1],
                          calls, outcomes, i + 1)
    ELSE RunToolCalls(s, calls, outcomes, i + 1)

\* should_continue
ShouldContinue(msg, counter) ==
    IF msg.tool_calls # <<>> THEN "executor"
    ELSE IF msg.indicator THEN "end"
    ELSE IF counter < StepCeiling THEN "agent"
    ELSE "end"

\* The agent's fields as one record, for the writers above.
AgentState ==
    [step_counter |-> step_counter, current_execution |-> current_execution,
     timeline |-> agent_timeline, store_up |-> store_up,
     ssh_configured |-> ssh_configured, raised |-> FALSE, result |-> "none",
     responses |-> <<>>, ran |-> 0, in_flight |-> 0, peak |-> 0]

-----------------------------------------------------------------------------
(* DatabaseSREAgent: execute_incident_resolution *)

AgentInit ==
    /\ pc = "idle"
    /\ step_counter = 0
    /\ current_execution = 0
    /\ agent_executions = <<>>
    /\ agent_timeline = <<>>
    /\ messages = <<>>
    /\ last_message = NoMessage
    /\ step_count = 0
    /\ turns = 0
    /\ total_turns = 0
    /\ total_calls = 0
    /\ tools_run = 0
    /\ in_flight_peak = 0
    /\ oracle \in Oracles
    /\ ssh_configured \in BOOLEAN
    /\ store_up = TRUE

\* The except branch of execute_incident_resolution: the current execution,
\* if any, is marked failed; the commit raises when the store is down.
MarkFailed(rows, cur) ==
    IF cur # 0 /\ store_up
    THEN [rows EXCEPT ![cur] = [@ EXCEPT !.status = "failed",
                                          !.completed_at = "set",
                                          !.error_message = "set"]]
    ELSE rows

\* One event of the astream loop: the count, the progress commit, the limit.
AfterEvent(next_pc) ==
    IF ~store_up THEN "handler"
    ELSE IF step_count + 1 > EventLimit THEN "finish"
    ELSE next_pc

\* create_execution and the "start" timeline entry.
StartExecution ==
    /\ pc \in {"idle", "done", "raised"}
    /\ UNCHANGED notAgentVars
    /\ Len(agent_executions) < MaxExecutions
    /\ oracle = "free" \/ agent_executions = <<>>
    /\ IF store_up
       THEN LET id == Len(agent_executions) + 1
                s == AddTimelineEntry([AgentState EXCEPT !.current_execution = id],
                                      "start")
            IN  /\ agent_executions' = Append(agent_executions,
                       [status |-> "running", completed_at |-> "null",
                        error_message |-> "null"])
                /\ current_execution' = id
                /\ step_counter' = s.step_counter
                /\ agent_timeline' = s.timeline
                /\ messages' = <<"human">>
                /\ last_message' = NoMessage
                /\ step_count' = 0
                /\ turns' = 0
                /\ tools_run' = 0
                /\ in_flight_peak' = 0
                /\ pc' = "agent"
       ELSE /\ pc' = "raised"
            /\ UNCHANGED <<agent_executions, current_execution, step_counter,
                           agent_timeline, messages, last_message, step_count,
                           turns, tools_run, in_flight_peak>>
    /\ UNCHANGED <<total_turns, total_calls, oracle, ssh_configured, store_up>>

\* agent_node, should_continue and the event the graph streams for the node.
AgentNode ==
    /\ pc = "agent"
    /\ UNCHANGED notAgentVars
    /\ oracle = "free" => total_turns < MaxTurns
    /\ \E response \in Responses(oracle, MaxToolCalls - total_calls) :
          LET s == AddTimelineEntry(AgentState, "analysis")
              route == ShouldContinue(response, s.step_counter)
          IN  /\ step_counter' = s.step_counter
              /\ agent_timeline' = s.timeline
              /\ total_calls' = IF oracle = "free"
                                 THEN total_calls + Len(response.tool_calls)
                                 ELSE total_calls
              /\ IF s.raised
                 THEN /\ pc' = "handler"
                      /\ UNCHANGED <<messages, last_message, step_count>>
                 ELSE /\ messages' = Append(messages, "ai")
                      /\ last_message' = response
                      /\ step_count' = step_count + 1
                      /\ pc' = AfterEvent(IF route = "end" THEN "finish" ELSE route)
    /\ turns' = turns + 1
    /\ total_turns' = total_turns + 1
    /\ UNCHANGED <<current_execution, agent_executions, tools_run, in_flight_peak, oracle,
                   ssh_configured, store_up>>

\* llm_with_tools.invoke raises (network, credentials, rejected transcript).
OracleRaises ==
    /\ pc = "agent"
    /\ UNCHANGED notAgentVars
    /\ oracle = "free"
    /\ pc' = "handler"
    /\ UNCHANGED <<step_counter, current_execution, agent_executions,
                   agent_timeline, messages, last_message, step_count, turns,
                   total_turns, total_calls, tools_run, in_flight_peak, oracle, ssh_configured,
                   store_up>>

\* executor_node and the event the graph streams for the node.
ExecutorNode ==
    /\ pc = "executor"
    /\ UNCHANGED notAgentVars
    /\ LET calls == last_message.tool_calls
       IN  \E outcomes \in [1..Len(calls) -> SshOutcomes(oracle)] :
              LET s == RunToolCalls(AgentState, calls, outcomes, 1)
              IN  /\ step_counter' = s.step_counter
                  /\ agent_timeline' = s.timeline
                  /\ messages' = messages \o s.responses
                  /\ tools_run' = s.ran
                  /\ in_flight_peak' = s.peak
    /\ step_count' = step_count + 1
    /\ pc' = AfterEvent("agent")
    /\ UNCHANGED <<current_execution, agent_executions, last_message, turns,
                   total_turns, total_calls, oracle, ssh_configured, store_up>>

\* The end of the astream loop: the execution is marked completed and
\* committed, then the "completion" timeline entry is written.
Finish ==
    /\ pc = "finish"
    /\ UNCHANGED notAgentVars
    /\ IF store_up
       THEN LET s == AddTimelineEntry(AgentState, "completion")
            IN  /\ agent_executions' =
                       [agent_executions EXCEPT ![current_execution] =
                           [@ EXCEPT !.status = "completed", !.completed_at = "set"]]
                /\ step_counter' = s.step_counter
                /\ agent_timeline' = s.timeline
                /\ pc' = "done"
       ELSE /\ pc' = "handler"
            /\ UNCHANGED <<agent_executions, step_counter, agent_timeline>>
    /\ UNCHANGED <<current_execution, messages, last_message, step_count, turns,
                   total_turns, total_calls, tools_run, in_flight_peak, oracle, ssh_configured,
                   store_up>>

\* except Exception: mark the execution failed, commit, re-raise.
Handler ==
    /\ pc = "handler"
    /\ UNCHANGED notAgentVars
    /\ agent_executions' = MarkFailed(agent_executions, current_execution)
    /\ pc' = "raised"
    /\ UNCHANGED <<step_counter, current_execution, agent_timeline, messages,
                   last_message, step_count, turns, total_turns, total_calls,
                   tools_run, in_flight_peak, oracle, ssh_configured, store_up>>

\* The store stops accepting commits while a run is under way.
StoreOutage ==
    /\ store_up
    /\ UNCHANGED notAgentVars
    /\ oracle = "free"
    /\ pc \in {"agent", "executor", "finish"}
    /\ store_up' = FALSE
    /\ UNCHANGED <<pc, step_counter, current_execution, agent_executions,
                   agent_timeline, messages, last_message, step_count, turns,
                   total_turns, total_calls, tools_run, in_flight_peak, oracle, ssh_configured>>

AgentNext ==
    \/ StartExecution
    \/ AgentNode
    \/ OracleRaises
    \/ ExecutorNode
    \/ Finish
    \/ Handler
    \/ StoreOutage


-----------------------------------------------------------------------------
(* Properties of the DatabaseSREAgent loop *)

\* The timeline rows of execution e, in creation order.
TimelineOf(e) == SelectSeq(agent_timeline, LAMBDA entry : entry.execution_id = e)

\* The kinds of the messages that follow the latest oracle response.
RECURSIVE ResponsesAfterLastAI(_)
ResponsesAfterLastAI(ms) ==
    IF ms = <<>> \/ ms[Len(ms)] \in {"ai", "human"} THEN <<>>
    ELSE Append(ResponsesAfterLastAI(SubSeq(ms, 1, Len(ms) - 1)), ms[Len(ms)])

\* The number of "command" entries that follow the latest "analysis" entry.
RECURSIVE CommandsAfterLastAnalysis(_)
CommandsAfterLastAnalysis(tl) ==
    IF tl = <<>> \/ tl[Len(tl)].action_type = "analysis" THEN 0
    ELSE CommandsAfterLastAnalysis(SubSeq(tl, 1, Len(tl) - 1))
         + (IF tl[Len(tl)].action_type = "command" THEN 1 ELSE 0)

RunEnded == pc \in {"done", "raised"} /\ current_execution # 0

\* C4: every run that made its Execution running ends with the Execution
\* completed or failed: when execute_incident_resolution has returned or
\* raised, the Execution it created is not running any more.
C4_NoRunEndsRunning ==
    RunEnded => agent_executions[current_execution].status \in {"completed", "failed"}

\* C5: in every Execution the step numbers of the timeline entries are
\* 1, 2, ..., n in creation order, also in the second Execution that one
\* agent object runs.
C5_StepNumbersFromOne ==
    \A e \in 1..Len(agent_executions) :
        \A i \in 1..Len(TimelineOf(e)) : TimelineOf(e)[i].step_number = i

\* C6: whatever the oracle answers, a run takes at most the step ceiling of
\* REASON turns.
C6_TurnsWithinCeiling == turns <= StepCeiling

\* C7: after an executor turn in which a remote command failed (the agent's
\* SSH settings being complete), the run is at its next REASON turn and a
\* timeline entry of the Execution records the failure with success = false.
C7_FailureOnTimeline ==
    (/\ pc = "agent"
     /\ ssh_configured
     /\ \E i \in DOMAIN ResponsesAfterLastAI(messages) :
            ResponsesAfterLastAI(messages)[i] = "tool_error")
    => \E i \in DOMAIN agent_timeline :
          /\ agent_timeline[i].execution_id = current_execution
          /\ agent_timeline[i].success = "false"

\* C8: an executor turn runs at most one tool call, however many the oracle
\* response carries.
C8_OneToolCallPerTurn == tools_run <= 1

\* C14: a run that ends at the step ceiling with no resolution signal ever
\* observed (its oracle never writes a resolution phrase and never asks for
\* a tool) leaves the Execution failed, not completed.
C14_CeilingWithoutSignalFails ==
    (oracle = "never_resolve" /\ pc = "done")
    => agent_executions[current_execution].status = "failed"

\* C15: in every run, the timeline entry with step number 1 has action type
\* analysis.
C15_FirstEntryIsAnalysis ==
    \A i \in DOMAIN agent_timeline :
        agent_timeline[i].step_number = 1 => agent_timeline[i].action_type = "analysis"

C17_StartsInitiated ==
    [][Len(agent_executions') > Len(agent_executions)
       => agent_executions'[Len(agent_executions')].status = "initiated"]_vars

\* C19: when an executor turn is over, the transcript holds exactly one
\* tool-result message, and the timeline exactly one entry, for every tool
\* call the oracle response requested, whether the call succeeded or failed
\* and whatever tool it names.
C19_OneResultPerCall ==
    (pc = "agent" /\ last_message.tool_calls # <<>>)
    => /\ Len(ResponsesAfterLastAI(messages)) = Len(last_message.tool_calls)
       /\ CommandsAfterLastAnalysis(agent_timeline) = Len(last_message.tool_calls)

-----------------------------------------------------------------------------
(* sre_agent_bkp.py: the sre_incident_execution table *)

IncidentNumbers == 1..NumIncidents

NoRow == [incident_number |-> 0, status |-> "none", completed_at |-> "null",
          resolution_summary |-> "null", agent_name |-> "none"]

NewRow(n, status, agent) ==
    [incident_number |-> n, status |-> status, completed_at |-> "null",
     resolution_summary |-> "null", agent_name |-> agent]

\* select(SREIncidentExecution).where(incident_number == n), scalar_one_or_none:
\* the id of the row, 0 when there is none.
Lookup(rows, n) ==
    IF \E i \in DOMAIN rows : rows[i].incident_number = n
    THEN CHOOSE i \in DOMAIN rows :
            /\ rows[i].incident_number = n
            /\ \A j \in DOMAIN rows : rows[j].incident_number = n => i <= j
    ELSE 0

NoUniqueConstraint(rows, n) == TRUE

\* The unique constraint of the table on incident_number: a row for n may be
\* inserted only when no row holds n.
UniqueIncidentNumber(rows, n) ==
    \A i \in DOMAIN rows : rows[i].incident_number # n

CommitStatusOnly(rows, id, loaded, mem) ==
    [rows EXCEPT ![id] = [@ EXCEPT !.status = mem.status]]

\* A commit of a loaded row: the UPDATE sets the attributes whose value the
\* session changed since it loaded (or last committed) them.
CommitDirty(rows, id, loaded, mem) ==
    [rows EXCEPT ![id] = [f \in DOMAIN @ |-> IF mem[f] # loaded[f] THEN mem[f] ELSE @[f]]]

NewTask(n) ==
    [number |-> n, pc |-> "queued", exec |-> 0, loaded |-> NoRow, mem |-> NoRow,
     saw_success |-> FALSE, closed |-> "none", close_result |-> "none"]

\* A task whose try block an exception has left: the session of the block and
\* its execution object are gone, the except block is next. What the run did
\* to a ticket before is kept as history.
Raised(task) == [NewTask(task.number) EXCEPT !.pc = "handler", !.closed = task.closed]

Put(bag, x) == bag (+) SetToBag({x})

Take(bag, x) == bag (-) SetToBag({x})

NoResponse ==
    [number |-> 0, http |-> 0, status |-> "none", execution_id |-> 0, seen |-> "none"]

LedgerInit ==
    /\ executions = <<>>
    /\ requests = EmptyBag
    /\ tasks = EmptyBag
    /\ triggers = 0
    /\ last_response = NoResponse

(* trigger_sre_agent *)

\* The lookup of the existing execution.
TriggerSelect(n) ==
    /\ triggers < MaxTriggers
    /\ triggers' = triggers + 1
    /\ LET id == Lookup(executions, n)
       IN  requests' = Put(requests,
               [number |-> n, existing |-> id,
                loaded |-> IF id = 0 THEN NoRow ELSE executions[id]])
    /\ UNCHANGED <<executions, tasks, last_response, notLedgerVars>>

Response(q, http, status, id) ==
    [number |-> q.number, http |-> http, status |-> status, execution_id |-> id,
     seen |-> q.loaded.status]

\* The rest of the handler: answer "already processing", or reset the row and
\* add the task, or add the task and insert the row. A task added by a
\* handler that ends in an HTTP error is never run.
TriggerDecide(q) ==
    /\ BagIn(q, requests)
    /\ requests' = Take(requests, q)
    /\ UNCHANGED <<triggers, notLedgerVars>>
    /\ IF q.existing # 0 /\ q.loaded.status \in {"running", "initiated"}
       THEN /\ last_response' = Response(q, 200, q.loaded.status, q.existing)
            /\ UNCHANGED <<executions, tasks>>
       ELSE IF q.existing # 0
       THEN /\ executions' = CommitDirty(executions, q.existing, q.loaded,
                   [q.loaded EXCEPT !.status = "initiated",
                                    !.agent_name = "SelfHealingSRE-v1.0",
                                    !.completed_at = "null",
                                    !.resolution_summary = "null"])
            /\ tasks' = Put(tasks, NewTask(q.number))
            /\ last_response' = Response(q, 200, "initiated", q.existing)
       ELSE IF UniqueIncidentNumber(executions, q.number)
       THEN /\ executions' = Append(executions,
                   NewRow(q.number, "initiated", "SelfHealingSRE-v1.0"))
            /\ tasks' = Put(tasks, NewTask(q.number))
            /\ last_response' = Response(q, 200, "initiated", Len(executions) + 1)
       ELSE /\ last_response' = Response(q, 500, "none", 0)
            /\ UNCHANGED <<executions, tasks>>

(* process_incident_with_agent *)

\* The lookup of the execution row by the task's own session.
TaskSelect(task) ==
    /\ BagIn(task, tasks)
    /\ task.pc = "queued"
    /\ LET id == Lookup(executions, task.number)
       IN  tasks' = Put(Take(tasks, task),
               [task EXCEPT !.pc = "selected", !.exec = id,
                            !.loaded = IF id = 0 THEN NoRow ELSE executions[id]])
    /\ UNCHANGED <<executions, requests, triggers, last_response, notLedgerVars>>

\* Create or update execution record, and the commit.
TaskUpsert(task) ==
    /\ BagIn(task, tasks)
    /\ task.pc = "selected"
    /\ LET running == [task.loaded EXCEPT !.status = "running",
                                          !.agent_name = "LangGraph-SRE-v2.0"]
           fresh == NewRow(task.number, "running", "LangGraph-SRE-v2.0")
       IN  IF task.exec # 0
           THEN /\ executions' = CommitDirty(executions, task.exec, task.loaded, running)
                /\ tasks' = Put(Take(tasks, task),
                       [task EXCEPT !.pc = "agent", !.loaded = running, !.mem = running])
           ELSE IF UniqueIncidentNumber(executions, task.number)
           THEN /\ executions' = Append(executions, fresh)
                /\ tasks' = Put(Take(tasks, task),
                       [task EXCEPT !.pc = "agent", !.exec = Len(executions) + 1,
                                    !.loaded = fresh, !.mem = fresh])
           ELSE /\ tasks' = Put(Take(tasks, task), Raised(task))
                /\ UNCHANGED executions
    /\ UNCHANGED <<requests, triggers, last_response, notLedgerVars>>

\* What the oracle of a background task may answer in one REASON turn: tool
\* calls (a remote command, the closure of a ticket the ticketing system
\* knows or does not know), a final text that holds the word SUCCESS or
\* does not, or an exception of the call itself.
TaskResponse(calls, outcome) == [tool_calls |-> calls, outcome |-> outcome]

TaskResponses ==
    {TaskResponse(calls, "tools") :
        calls \in {<<"ssh">>, <<"close_known">>, <<"close_unknown">>,
                   <<"ssh", "close_known">>}}
    \cup {TaskResponse(<<>>, o) : o \in {"final_success", "final_text", "raise"}}

IsFinal(response) == response.outcome # "tools"

\* The runs of the graph the oracle can drive within the turns modelled:
\* turns with tool calls, then one final answer or an exception.
TaskScripts ==
    {s \in SeqsUpTo(TaskResponses, MaxLoopTurns) :
        /\ Len(s) >= 1
        /\ IsFinal(s[Len(s)])
        /\ \A i \in 1..(Len(s) - 1) : ~IsFinal(s[i])}

\* close_servicenow_incident of the task: the execution object is marked
\* completed and the text "SUCCESS: ..." is returned, for any ticket number.
CloseServiceNowIncident(task, ticket) ==
    [task EXCEPT !.mem = [@ EXCEPT !.status = "completed", !.completed_at = "set",
                                   !.resolution_summary = "set"],
                 !.saw_success = TRUE,
                 !.closed = ticket,
                 !.close_result = "success"]

\* The ToolNode of the task's graph: every tool call of the response is run.
RECURSIVE RunTaskTools(_, _, _)
RunTaskTools(task, calls, i) ==
    IF i > Len(calls) THEN task
    ELSE IF calls[i] = "ssh" THEN RunTaskTools(task, calls, i + 1)
    ELSE RunTaskTools(CloseServiceNowIncident(task,
                          IF calls[i] = "close_known" THEN "known" ELSE "unknown"),
                      calls, i + 1)

\* The graph of the task: agent_node asks the oracle; should_continue sends a
\* response with tool calls to the executor and back to the agent, and ends
\* the graph on any other response. An exception leaves the graph.
RECURSIVE RunGraph(_, _, _)
RunGraph(task, script, i) ==
    LET response == script[i]
    IN  IF response.outcome = "raise" THEN Raised(task)
        ELSE IF response.outcome = "final_success"
        THEN [task EXCEPT !.saw_success = TRUE, !.pc = "finalize"]
        ELSE IF response.outcome = "final_text" THEN [task EXCEPT !.pc = "finalize"]
        ELSE RunGraph(RunTaskTools(task, response.tool_calls, 1), script, i + 1)

\* app.ainvoke: the whole run of the graph, which touches the execution
\* object of the task's session and no committed row.
TaskAinvoke(task) ==
    /\ BagIn(task, tasks)
    /\ task.pc = "agent"
    /\ \E ran \in {RunGraph(task, script, 1) : script \in TaskScripts} :
          tasks' = Put(Take(tasks, task), ran)
    /\ UNCHANGED <<executions, requests, triggers, last_response, notLedgerVars>>

\* Update execution record with final status, and the commit; the commit
\* raises when the store fails.
TaskFinalize(task) ==
    /\ BagIn(task, tasks)
    /\ task.pc = "finalize"
    /\ LET final == IF task.mem.status = "running"
                    THEN [task.mem EXCEPT
                              !.status = IF task.saw_success THEN "completed" ELSE "failed",
                              !.completed_at = "set"]
                    ELSE task.mem
       IN  \E commit_ok \in BOOLEAN :
              IF commit_ok
              THEN /\ executions' = CommitDirty(executions, task.exec, task.loaded, final)
                   /\ tasks' = Take(tasks, task)
              ELSE /\ tasks' = Put(Take(tasks, task), Raised(task))
                   /\ UNCHANGED executions
    /\ UNCHANGED <<requests, triggers, last_response, notLedgerVars>>

\* except Exception: a new session looks the row up and marks it failed; an
\* error of that session is logged and the task ends.
TaskHandler(task) ==
    /\ BagIn(task, tasks)
    /\ task.pc = "handler"
    /\ LET id == Lookup(executions, task.number)
       IN  \E commit_ok \in BOOLEAN :
              executions' =
                  IF commit_ok /\ id # 0
                  THEN [executions EXCEPT ![id] =
                           [@ EXCEPT !.status = "failed", !.completed_at = "set"]]
                  ELSE executions
    /\ tasks' = Take(tasks, task)
    /\ UNCHANGED <<requests, triggers, last_response, notLedgerVars>>

LedgerNext ==
    \/ \E n \in IncidentNumbers : TriggerSelect(n)
    \/ \E q \in BagToSet(requests) : TriggerDecide(q)
    \/ \E task \in BagToSet(tasks) : TaskSelect(task)
    \/ \E task \in BagToSet(tasks) : TaskUpsert(task)
    \/ \E task \in BagToSet(tasks) : TaskAinvoke(task)
    \/ \E task \in BagToSet(tasks) : TaskFinalize(task)
    \/ \E task \in BagToSet(tasks) : TaskHandler(task)

-----------------------------------------------------------------------------
(* The remote-command tools *)

Commands == {"uptime", "systemctl restart nginx"}

\* What a connection attempt and the command behind it can come to.
ConnectOutcomes ==
    {"authentication_failed", "ssh_failed", "exec_failed", "exit_zero", "exit_nonzero"}

\* The settings of config.py the tools read; key_file_exists is what
\* os.path.exists answers for SSH_PRIVATE_KEY_PATH.
Settings ==
    [ENABLE_REAL_SSH : BOOLEAN,
     SSH_USERNAME : {"", "sre-agent"},
     SSH_PRIVATE_KEY_PATH : {"None", "~/.ssh/sre_key"},
     key_file_exists : BOOLEAN,
     SERVICENOW_INSTANCE_URL : {"None", "https://dev.service-now.com"},
     SERVICENOW_USERNAME : {"None", "admin"},
     SERVICENOW_PASSWORD : {"None", "secret"}]

DefaultSettings ==
    [ENABLE_REAL_SSH |-> FALSE, SSH_USERNAME |-> "sre-agent",
     SSH_PRIVATE_KEY_PATH |-> "None", key_file_exists |-> FALSE,
     SERVICENOW_INSTANCE_URL |-> "None", SERVICENOW_USERNAME |-> "None",
     SERVICENOW_PASSWORD |-> "None"]

ToolResult(kind, command, connect) ==
    [kind |-> kind, command |-> command, connect_attempted |-> connect,
     session_open |-> FALSE]

\* A call returns while the session it opened has not been closed.
SessionLeftOpen(result) == [result EXCEPT !.session_open = TRUE]

NoCall == [tool |-> "none", result |-> ToolResult("none", "", FALSE)]

\* What the connection and the command give once client.connect is called.
RealExecution(command, outcome) ==
    IF outcome = "authentication_failed"
    THEN ToolResult("ERROR: Authentication failed", command, TRUE)
    ELSE IF outcome \in {"ssh_failed", "exec_failed"}
    THEN ToolResult("ERROR: SSH connection failed", command, TRUE)
    ELSE IF outcome = "exit_zero" THEN ToolResult("EXIT_STATUS: 0", command, TRUE)
    ELSE ToolResult("EXIT_STATUS: 1", command, TRUE)

\* A tool that would connect without looking at its credentials.
execute_ssh_command_unchecked(s, command, outcome) == RealExecution(command, outcome)

\* execute_ssh_command of self_healing_sre_agent.py.
execute_ssh_command(s, command, outcome) ==
    IF s.SSH_USERNAME = "" \/ s.SSH_PRIVATE_KEY_PATH = "None"
    THEN ToolResult("ERROR: not configured", "", FALSE)
    ELSE IF ~s.key_file_exists
    THEN ToolResult("ERROR: SSH key file not found", "", FALSE)
    ELSE RealExecution(command, outcome)

\* execute_ssh_command of process_incident_with_agent in sre_agent_bkp.py.
bkp_execute_ssh_command(s, command, outcome) ==
    IF ~(s.SSH_PRIVATE_KEY_PATH # "None" /\ s.key_file_exists)
    THEN ToolResult("simulated - no SSH key configured", command, FALSE)
    ELSE IF ~s.ENABLE_REAL_SSH
    THEN ToolResult("simulated - ENABLE_REAL_SSH=False", command, FALSE)
    ELSE IF outcome \in {"authentication_failed", "ssh_failed"}
    THEN ToolResult("ERROR: SSH execution failed", command, TRUE)
    ELSE IF outcome = "exec_failed"
    THEN SessionLeftOpen(ToolResult("ERROR: SSH execution failed", command, TRUE))
    ELSE RealExecution(command, outcome)

\* What the requests to the ticketing system can come to.
TicketOutcomes == {"network_error", "search_failed", "not_found", "closed", "close_failed"}

\* close_servicenow_incident of self_healing_sre_agent.py.
close_servicenow_incident(s, incident_number, outcome) ==
    IF \/ s.SERVICENOW_INSTANCE_URL = "None"
       \/ s.SERVICENOW_USERNAME = "None"
       \/ s.SERVICENOW_PASSWORD = "None"
    THEN ToolResult("ERROR: ServiceNow credentials not configured", "", FALSE)
    ELSE IF outcome = "network_error"
    THEN ToolResult("ERROR: Network error connecting to ServiceNow", incident_number, TRUE)
    ELSE IF outcome = "search_failed"
    THEN ToolResult("ERROR: Failed to find incident", incident_number, TRUE)
    ELSE IF outcome = "not_found"
    THEN ToolResult("ERROR: Incident not found in ServiceNow", incident_number, TRUE)
    ELSE IF outcome = "closed"
    THEN ToolResult("SERVICENOW INCIDENT CLOSED SUCCESSFULLY", incident_number, TRUE)
    ELSE ToolResult("ERROR: Failed to close incident", incident_number, TRUE)

ToolIdle ==
    /\ settings = DefaultSettings
    /\ ssh_calls = 0
    /\ ssh_call = NoCall

ToolInit ==
    /\ settings \in Settings
    /\ ssh_calls = 0
    /\ ssh_call = NoCall

\* The oracle of an SREAgent graph calls the tool.
CallExecuteSshCommand ==
    /\ ssh_calls < MaxSshCalls
    /\ ssh_calls' = ssh_calls + 1
    /\ \E command \in Commands, outcome \in ConnectOutcomes :
          ssh_call' = [tool |-> "self_healing_sre_agent",
                       result |-> execute_ssh_command(settings, command, outcome)]
    /\ UNCHANGED <<settings, notToolVars>>

\* The oracle of a background task of sre_agent_bkp.py calls the tool.
CallBkpExecuteSshCommand ==
    /\ ssh_calls < MaxSshCalls
    /\ ssh_calls' = ssh_calls + 1
    /\ \E command \in Commands, outcome \in ConnectOutcomes :
          ssh_call' = [tool |-> "sre_agent_bkp",
                       result |-> bkp_execute_ssh_command(settings, command, outcome)]
    /\ UNCHANGED <<settings, notToolVars>>

\* The oracle of an SREAgent graph calls the ticket-closing tool.
CallCloseServicenowIncident ==
    /\ ssh_calls < MaxSshCalls
    /\ ssh_calls' = ssh_calls + 1
    /\ \E outcome \in TicketOutcomes :
          ssh_call' = [tool |-> "close_servicenow_incident",
                       result |-> close_servicenow_incident(settings, "INC0000060", outcome)]
    /\ UNCHANGED <<settings, notToolVars>>

ToolNext ==
    \/ CallExecuteSshCommand
    \/ CallBkpExecuteSshCommand
    \/ CallCloseServicenowIncident

\* C9: with ENABLE_REAL_SSH false a remote-command call makes no connection
\* attempt, whether or not a key is configured.
C9_SimulationNeverConnects ==
    (/\ ssh_calls > 0
     /\ ssh_call.tool \in {"self_healing_sre_agent", "sre_agent_bkp"}
     /\ ~settings.ENABLE_REAL_SSH)
    => ~ssh_call.result.connect_attempted

\* The credentials the last tool called needs are not all set.
CredentialsMissing ==
    \/ /\ ssh_call.tool = "self_healing_sre_agent"
       /\ (settings.SSH_USERNAME = "" \/ settings.SSH_PRIVATE_KEY_PATH = "None")
    \/ /\ ssh_call.tool = "close_servicenow_incident"
       /\ \/ settings.SERVICENOW_INSTANCE_URL = "None"
          \/ settings.SERVICENOW_USERNAME = "None"
          \/ settings.SERVICENOW_PASSWORD = "None"

C24_SessionClosedAfterCall ==
    ssh_calls > 0 => ~ssh_call.result.session_open

-----------------------------------------------------------------------------
(* The query service: SREExecutionService *)

EntryStatuses == {"completed", "running", "failed"}

\* A ratio kept exact: num / den.
Ratio(num, den) == [num |-> num, den |-> den]

Max(a, b) == IF a >= b THEN a ELSE b

Completed(entries) ==
    Cardinality({i \in DOMAIN entries : entries[i] = "completed"})

ProgressNoDivision(entries) == Ratio(Completed(entries) * 100 * Len(entries), 1)

\* progress = (completed_steps / max(total_steps, 1)) * 100
Progress(entries) == Ratio(Completed(entries) * 100, Max(Len(entries), 1))

\* A confidence_score column: NULL, or a score.
ConfidenceScores == {<<>>, <<0>>, <<1>>, <<90>>}

\* The statuses the ledger's writers store in an execution row.
ExecutionStatuses == {"initiated", "running", "completed", "failed"}

\* The scores that are not None, in order.
RECURSIVE NonNull(_)
NonNull(scores) ==
    IF scores = <<>> THEN <<>>
    ELSE IF scores[1] = <<>> THEN NonNull(Tail(scores))
    ELSE <<scores[1][1]>> \o NonNull(Tail(scores))

RECURSIVE Sum(_)
Sum(values) == IF values = <<>> THEN 0 ELSE values[1] + Sum(Tail(values))

\* int(sum(c) / len(c)) for a non-empty list of non-negative scores.
IntOfMean(values) == Sum(values) \div Len(values)

\* The summary: confidence=int(avg_confidence) if avg_confidence else None,
\* avg_confidence being None without scores; a mean of 0.0 is falsy.
SummaryConfidence(scores) ==
    IF NonNull(scores) = <<>> \/ Sum(NonNull(scores)) = 0
    THEN <<>>
    ELSE <<IntOfMean(NonNull(scores))>>

\* The detail: confidence=int(avg_confidence), avg_confidence being 85
\* without scores.
DetailConfidence(scores) ==
    IF NonNull(scores) = <<>> THEN <<DefaultConfidence>>
    ELSE <<IntOfMean(NonNull(scores))>>

\* agent_status of the detail projection.
AgentStatus(status) ==
    IF status = "failed" THEN "error"
    ELSE IF status = "success" THEN "completed"
    ELSE "in_progress"

NoProjection ==
    [kind |-> "none", has_progress |-> FALSE, progress |-> Ratio(0, 1),
     has_agent |-> FALSE, confidence |-> <<>>, agent_status |-> "none"]

QueryIdle ==
    /\ sre_timeline = <<>>
    /\ has_agent_name = TRUE
    /\ sre_hypotheses = <<>>
    /\ sre_status = "initiated"
    /\ projection = NoProjection

\* The rows a query can find: any timeline of the execution, written by the
\* ledger's writer before the query.
QueryInit ==
    /\ sre_timeline \in SeqsUpTo(EntryStatuses, MaxEntries)
    /\ has_agent_name \in BOOLEAN
    /\ sre_hypotheses \in SeqsUpTo(ConfidenceScores, MaxHypotheses)
    /\ sre_status \in ExecutionStatuses
    /\ projection = NoProjection

\* get_sre_execution_summary: progress over the sre_timeline_entry rows.
GetSreExecutionSummary ==
    /\ projection' = [kind |-> "summary", has_progress |-> TRUE,
                      progress |-> Progress(sre_timeline),
                      has_agent |-> FALSE,
                      confidence |-> SummaryConfidence(sre_hypotheses),
                      agent_status |-> "none"]
    /\ UNCHANGED <<sre_timeline, has_agent_name, sre_hypotheses, sre_status,
                   notQueryVars>>

\* get_sre_execution_by_incident_number: the agent information, with its
\* progress, is built when the execution row has an agent_name.
GetSreExecutionByIncidentNumber ==
    /\ projection' = IF has_agent_name
                     THEN [kind |-> "detail", has_progress |-> TRUE,
                           progress |-> Progress(sre_timeline),
                           has_agent |-> TRUE,
                           confidence |-> DetailConfidence(sre_hypotheses),
                           agent_status |-> AgentStatus(sre_status)]
                     ELSE [kind |-> "detail", has_progress |-> FALSE,
                           progress |-> Ratio(0, 1), has_agent |-> FALSE,
                           confidence |-> <<>>, agent_status |-> "none"]
    /\ UNCHANGED <<sre_timeline, has_agent_name, sre_hypotheses, sre_status,
                   notQueryVars>>

QueryNext ==
    \/ GetSreExecutionSummary
    \/ GetSreExecutionByIncidentNumber

C23_ConfidenceIsMean ==
    (/\ NonNull(sre_hypotheses) # <<>>
     /\ (projection.kind = "summary" \/ projection.has_agent))
    => projection.confidence = <<IntOfMean(NonNull(sre_hypotheses))>>

\* C29: the agent of the detail projection has status completed exactly
\* when the execution is completed, error exactly when it is failed, and
\* in_progress otherwise.
C29_AgentStatusFollowsExecution ==
    projection.has_agent =>
        projection.agent_status =
            IF sre_status = "completed" THEN "completed"
            ELSE IF sre_status = "failed" THEN "error"
            ELSE "in_progress"

-----------------------------------------------------------------------------
(* sre_agent.py: the live trigger endpoint and its background run *)

\* A JSON object as the handler reads it: the value of "number" (<<>> when
\* the key is absent) and the list under "result" (<<>> when the key is
\* absent or the list is empty).
Object(number, result) == [number |-> number, result |-> result]

PlainIncidents == {Object(n, <<>>) : n \in {<<>>, <<"INC0000060">>}}

\* Incident objects: plain ones, and ones that carry a "result" list of
\* their own.
IncidentObjects ==
    PlainIncidents \cup {Object(x.number, <<Object(<<>>, <<>>)>>) : x \in PlainIncidents}

\* The webhook envelope {"result": [x]}.
Envelope(x) == Object(<<>>, <<x>>)

RequestBodies ==
    IncidentObjects \cup {Envelope(x) : x \in IncidentObjects}

\* incident_data of the handler.
IncidentData(payload) ==
    IF payload.result # <<>> THEN payload.result[1] ELSE payload

PayloadAsIs(payload) == payload

\* payload_for_task of the handler.
PayloadForTask(payload) ==
    IF payload.result # <<>> THEN payload ELSE Envelope(payload)

\* incident_data.get("number", f"INC{int(time.time())}")
IncidentNumber(payload, now) ==
    IF IncidentData(payload).number # <<>>
    THEN IncidentData(payload).number[1]
    ELSE "INC" \o ToString(now)

StatusAsStored(payload) == "running"

\* The status field of the answer.
StatusReported(payload) == "initiated"

NewLiveTask(payload) ==
    [payload |-> payload, pc |-> "queued", stepped |-> FALSE, outcome |-> "none"]

LiveInit ==
    /\ clock = 0
    /\ live_responses = <<>>
    /\ live_tasks = <<>>

\* time.time() moves on to the next second; what matters is which requests
\* share a second, so one move between two requests is enough.
Tick ==
    /\ clock < Len(live_responses)
    /\ Len(live_responses) < MaxLiveTriggers
    /\ clock' = clock + 1
    /\ UNCHANGED <<live_responses, live_tasks, notLiveVars>>

\* trigger_sre_agent on a JSON object: the task is added and the answer
\* made before the task runs.
TriggerLive(payload) ==
    /\ Len(live_responses) < MaxLiveTriggers
    /\ live_tasks' = Append(live_tasks, NewLiveTask(PayloadForTask(payload)))
    /\ live_responses' = Append(live_responses,
           [body |-> <<payload>>, http |-> 200, status |-> StatusReported(payload),
            incident_number |-> IncidentNumber(payload, clock), execution_id |-> 0,
            task |-> Len(live_tasks) + 1])
    /\ UNCHANGED <<clock, notLiveVars>>

\* trigger_sre_agent on a body that request.json() or the reading of the
\* incident rejects: except Exception answers HTTP 500, no task is added.
TriggerLiveMalformed ==
    /\ Len(live_responses) < MaxLiveTriggers
    /\ live_responses' = Append(live_responses,
           [body |-> <<>>, http |-> 500, status |-> "none",
            incident_number |-> "none", execution_id |-> 0, task |-> 0])
    /\ UNCHANGED <<clock, live_tasks, notLiveVars>>

\* process_incident_with_agent starts: the agent is built and the workflow
\* created, or that raises and the outer except only logs.
LiveTaskStart(i) ==
    /\ live_tasks[i].pc = "queued"
    /\ \E built \in BOOLEAN :
          live_tasks' = [live_tasks EXCEPT ![i] =
              IF built THEN [@ EXCEPT !.pc = "streaming"]
              ELSE [@ EXCEPT !.pc = "ended", !.outcome = "not_started"]]
    /\ UNCHANGED <<clock, live_responses, notLiveVars>>

\* The first event of app.stream: the loop has taken a step.
LiveTaskStep(i) ==
    /\ live_tasks[i].pc = "streaming"
    /\ ~live_tasks[i].stepped
    /\ live_tasks' = [live_tasks EXCEPT ![i] = [@ EXCEPT !.stepped = TRUE]]
    /\ UNCHANGED <<clock, live_responses, notLiveVars>>

\* The stream ends, or raises: the completion is logged COMPLETED or ERROR.
LiveTaskEnd(i) ==
    /\ live_tasks[i].pc = "streaming"
    /\ \E outcome \in {"COMPLETED", "ERROR"} :
          live_tasks' = [live_tasks EXCEPT ![i] =
              [@ EXCEPT !.pc = "ended", !.outcome = outcome]]
    /\ UNCHANGED <<clock, live_responses, notLiveVars>>

LiveNext ==
    \/ Tick
    \/ \E payload \in RequestBodies : TriggerLive(payload)
    \/ TriggerLiveMalformed
    \/ \E i \in DOMAIN live_tasks : LiveTaskStart(i)
    \/ \E i \in DOMAIN live_tasks : LiveTaskStep(i)
    \/ \E i \in DOMAIN live_tasks : LiveTaskEnd(i)

SameForBothShapes(x) ==
    \A i, j \in DOMAIN live_responses :
        (live_responses[i].body = <<Envelope(x)>> /\ live_responses[j].body = <<x>>) =>
            /\ live_responses[i].incident_number = live_responses[j].incident_number
            /\ live_tasks[live_responses[i].task].payload =
                   live_tasks[live_responses[j].task].payload

\* C13 (as stated): for every incident object x the envelope {result: [x]}
\* and the flat x give the same payload to the run and the same number.
C13_SameForEveryObject ==
    \A x \in IncidentObjects : SameForBothShapes(x)

\* C13 (amended): the two shapes agree for every incident object x that
\* carries a number and no non-empty "result" list of its own.
C13_SameForNumberedObject ==
    \A x \in PlainIncidents : x.number # <<>> => SameForBothShapes(x)

\* Both shapes of one numbered incident object have been triggered.
C13_BothShapesTriggered ==
    \E x \in PlainIncidents, i, j \in DOMAIN live_responses :
        /\ x.number # <<>>
        /\ live_responses[i].body = <<Envelope(x)>>
        /\ live_responses[j].body = <<x>>

\* get_execution_status: the row of sre_incident_execution with the given
\* id, or HTTP 404.
GetExecutionStatus(execution_id) ==
    IF execution_id \in DOMAIN executions
    THEN [http |-> 200, incident_number |-> <<executions[execution_id].incident_number>>]
    ELSE [http |-> 404, incident_number |-> <<>>]

\* C27: polling the status endpoint with the execution_id a trigger has
\* returned gives the Execution of the triggered incident number.
C27_ExecutionIdNamesExecution ==
    \A i \in DOMAIN live_responses :
        live_responses[i].http = 200 =>
            LET polled == GetExecutionStatus(live_responses[i].execution_id)
            IN  /\ polled.http = 200
                /\ polled.incident_number = <<live_responses[i].incident_number>>

-----------------------------------------------------------------------------
(* Properties of the trigger endpoint and its ledger *)

NonTerminalRows(n) ==
    {i \in DOMAIN executions :
        /\ executions[i].incident_number = n
        /\ executions[i].status \in {"initiated", "running"}}

\* The number of background tasks of incident n whose graph is running.
LoopsRunning(n) ==
    LET S == {task \in BagToSet(tasks) : task.number = n /\ task.pc = "agent"}
    IN  BagCardinality([task \in S |-> CopiesIn(task, tasks)])

\* C1: at any time at most one execution row of an incident number is
\* initiated or running, also when trigger requests for the same new
\* incident number are handled concurrently.
C1_OneNonTerminalExecution ==
    \A n \in IncidentNumbers : Cardinality(NonTerminalRows(n)) <= 1

\* Two triggers for one new incident number were in their handlers together:
\* the second insert was refused and one row is left, not yet terminal.
C1_ConcurrentDoubleTrigger ==
    /\ last_response.http = 500
    /\ Cardinality(NonTerminalRows(last_response.number)) = 1

\* C2: at most one control loop is running per incident number at any time.
C2_OneActiveLoop ==
    \A n \in IncidentNumbers : LoopsRunning(n) <= 1

C10_UnknownTicketNotCompleted ==
    \A task \in BagToSet(tasks) :
        task.closed = "unknown" =>
            /\ task.close_result = "not_found"
            /\ task.mem.status # "completed"

\* C25: a terminal status is final within a run: the failure handler of a
\* run whose ticket closure has marked the Execution completed changes no
\* Execution to failed.
C25_CompletedIsFinal ==
    [][\A task \in BagToSet(tasks) :
          (/\ task.pc = "handler"
           /\ task.closed # "none"
           /\ CopiesIn(task, tasks') < CopiesIn(task, tasks))
          => \A id \in DOMAIN executions :
                 executions'[id].status = "failed" => executions[id].status = "failed"]_vars

\* C26: in every state of the ledger an Execution has completed_at set if
\* and only if its status is completed or failed.
C26_CompletedAtIffTerminal ==
    \A id \in DOMAIN executions :
        (executions[id].completed_at # "null")
            <=> (executions[id].status \in {"completed", "failed"})

-----------------------------------------------------------------------------
(* SREAgent: the graph of self_healing_sre_agent.py *)

\* A message of the transcript: its type, whether its content holds the
\* text "SRE" and, for an oracle response, what it requests and whether its
\* narrative holds a resolution phrase.
SreMessage(type, response, mentions_sre) ==
    [type |-> type, tool_calls |-> response.tool_calls,
     indicator |-> response.indicator, mentions_sre |-> mentions_sre]

\* AIMessage(content=self.system_prompt): the operating charter, whose text
\* names the "SRE" agent.
SystemPrompt == SreMessage("charter", NoMessage, TRUE)

\* agent_node: the list handed to llm_with_tools.invoke.
MessagesSent(messages_) ==
    IF \E i \in DOMAIN messages_ :
           messages_[i].type = "ai" /\ messages_[i].mentions_sre
    THEN messages_
    ELSE <<SystemPrompt>> \o messages_

\* should_continue of SREAgent.
SreShouldContinue(msg) ==
    IF msg.tool_calls # <<>> THEN "executor" ELSE "end"

\* app.stream starts at the entry point with the incident as the transcript.
SreInit ==
    /\ sre_pc = "agent"
    /\ \E mentions_sre \in BOOLEAN :
          sre_messages = <<SreMessage("human", NoMessage, mentions_sre)>>
    /\ sre_route = "none"
    /\ sre_turns = 0
    /\ sre_sent = <<>>

\* agent_node and the conditional edge that follows it.
SreAgentNode ==
    /\ sre_pc = "agent"
    /\ sre_turns < MaxSreTurns
    /\ sre_sent' = MessagesSent(sre_messages)
    /\ \E response \in Responses("free", MaxToolCalls), mentions_sre \in BOOLEAN :
          /\ sre_messages' = Append(sre_messages, SreMessage("ai", response, mentions_sre))
          /\ sre_route' = SreShouldContinue(response)
          /\ sre_pc' = SreShouldContinue(response)
    /\ sre_turns' = sre_turns + 1
    /\ UNCHANGED notSreVars

\* executor_node: the tool node's result joins the transcript; the edge
\* leads back to the agent.
SreExecutorNode ==
    /\ sre_pc = "executor"
    /\ \E mentions_sre \in BOOLEAN :
          sre_messages' = Append(sre_messages, SreMessage("tool", NoMessage, mentions_sre))
    /\ sre_pc' = "agent"
    /\ UNCHANGED <<sre_route, sre_turns, sre_sent, notSreVars>>

SreNext ==
    \/ SreAgentNode
    \/ SreExecutorNode

\* C18: after every oracle turn, a turn with a tool request goes to ACT;
\* otherwise a turn whose narrative holds a resolution phrase ends the loop;
\* otherwise (no step ceiling being reached) the loop returns to REASON.
C18_RoutesAsStated ==
    LET msg == sre_messages[Len(sre_messages)]
    IN  msg.type = "ai" =>
            sre_route = IF msg.tool_calls # <<>> THEN "executor"
                        ELSE IF msg.indicator THEN "end"
                        ELSE "agent"

\* C21: on every REASON turn the message list sent to the oracle begins
\* with the operating charter, whatever the earlier messages hold.
C21_CharterFirst ==
    sre_sent # <<>> => sre_sent[1] = SystemPrompt

-----------------------------------------------------------------------------
(* IncidentLogger and the background runs that log with it
   (self_healing_sre_agent.py, sre_agent.py) *)

Loggers == 1..NumLoggers

\* The incident ids extract_incident_id finds in the incidents processed.
LogIncidentIds == {"INC0000060", "INC0000061"}

\* The steps the graph logs while the stream runs: log_agent_message,
\* log_tool_call, log_tool_result.
WorkflowStepTypes == {"AGENT_RESPONSE", "TOOL_CALL", "TOOL_RESULT"}

\* log_step: the entry appended to current_session_logs.
LogEntry(logs, step_type, status) ==
    [step_number |-> Len(logs) + 1, step_type |-> step_type, status |-> status]

\* _get_current_status.
GetCurrentStatus(logs) ==
    IF logs = <<>> THEN "STARTED"
    ELSE IF logs[Len(logs)].step_type = "INCIDENT_COMPLETED"
         THEN logs[Len(logs)].status
         ELSE "IN_PROGRESS"

\* _save_to_file: current_incident_data.
CurrentIncidentData(incident_id, logs) ==
    [incident_id |-> incident_id,
     step_count |-> Len(logs),
     status |-> GetCurrentStatus(logs),
     logs |-> logs]

\* _save_to_file: the record of the current incident replaces the first
\* record of its id in the array loaded, or is appended to it.
Updated(existing_logs, data) ==
    IF \E i \in DOMAIN existing_logs : existing_logs[i].incident_id = data.incident_id
    THEN LET i == CHOOSE i \in DOMAIN existing_logs :
                      /\ existing_logs[i].incident_id = data.incident_id
                      /\ \A j \in 1..(i - 1) :
                             existing_logs[j].incident_id # data.incident_id
         IN  [existing_logs EXCEPT ![i] = data]
    ELSE Append(existing_logs, data)

\* A run that has not started: IncidentLogger.__init__.
NewLogger ==
    [pc |-> "idle", after |-> "idle", outcome |-> "none",
     current_incident_id |-> "None", current_session_logs |-> <<>>,
     existing_logs |-> <<>>]

LogInit ==
    /\ log_file = <<>>
    /\ loggers = [r \in Loggers |-> NewLogger]

\* log_step up to the save: the entry joins current_session_logs, and the
\* run goes on to load the file.
Logged(logger, step_type, status, after) ==
    [logger EXCEPT !.current_session_logs =
                       Append(@, LogEntry(@, step_type, status)),
                   !.pc = "load",
                   !.after = after]

\* process_incident_with_agent up to the first save: SREAgent() either is
\* built or raises into the outer handler, which only reports;
\* start_incident_logging then names the incident and logs its arrival.
StartRun(r) ==
    /\ loggers[r].pc = "idle"
    /\ \E built \in BOOLEAN, incident_id \in LogIncidentIds :
          loggers' = [loggers EXCEPT ![r] =
              IF built
              THEN Logged([@ EXCEPT !.current_incident_id = incident_id,
                                    !.current_session_logs = <<>>],
                          "INCIDENT_RECEIVED", "STARTED", "stream")
              ELSE [@ EXCEPT !.pc = "done", !.outcome = "not_built"]]
    /\ UNCHANGED <<log_file, notLogVars>>

\* _save_to_file, first half: json.load of the file.
LoadFile(r) ==
    /\ loggers[r].pc = "load"
    /\ loggers' = [loggers EXCEPT ![r].existing_logs = log_file,
                                  ![r].pc = "write"]
    /\ UNCHANGED <<log_file, notLogVars>>

\* _save_to_file, second half: the array loaded, with the record of the
\* current incident put in, replaces the file.
WriteFile(r) ==
    /\ loggers[r].pc = "write"
    /\ log_file' = Updated(loggers[r].existing_logs,
                           CurrentIncidentData(loggers[r].current_incident_id,
                                               loggers[r].current_session_logs))
    /\ loggers' = [loggers EXCEPT ![r].pc = loggers[r].after,
                                  ![r].existing_logs = <<>>]
    /\ UNCHANGED notLogVars

\* One step of app.stream that logs: agent_node or executor_node.
LogWorkflowStep(r) ==
    /\ loggers[r].pc = "stream"
    /\ Len(loggers[r].current_session_logs) < MaxLogSteps + 1
    /\ \E step_type \in WorkflowStepTypes :
          loggers' = [loggers EXCEPT ![r] = Logged(@, step_type, "none", "stream")]
    /\ UNCHANGED <<log_file, notLogVars>>

\* The stream finishes: log_incident_completion("COMPLETED", ...).
StreamFinished(r) ==
    /\ loggers[r].pc = "stream"
    /\ loggers' = [loggers EXCEPT ![r] =
           Logged([@ EXCEPT !.outcome = "finished"],
                  "INCIDENT_COMPLETED", "COMPLETED", "done")]
    /\ UNCHANGED <<log_file, notLogVars>>

\* The stream raises: the inner handler calls
\* log_incident_completion("ERROR", ...).
StreamRaised(r) ==
    /\ loggers[r].pc = "stream"
    /\ loggers' = [loggers EXCEPT ![r] =
           Logged([@ EXCEPT !.outcome = "raised"],
                  "INCIDENT_COMPLETED", "ERROR", "done")]
    /\ UNCHANGED <<log_file, notLogVars>>

LogNext ==
    \/ \E r \in Loggers : StartRun(r)
    \/ \E r \in Loggers : LoadFile(r)
    \/ \E r \in Loggers : WriteFile(r)
    \/ \E r \in Loggers : LogWorkflowStep(r)
    \/ \E r \in Loggers : StreamFinished(r)
    \/ \E r \in Loggers : StreamRaised(r)

\* The records of the file that carry an incident id.
RecordsOf(incident_id) ==
    {i \in DOMAIN log_file : log_file[i].incident_id = incident_id}

\* The completion steps of a session log.
CompletionSteps(logs) ==
    {i \in DOMAIN logs : logs[i].step_type = "INCIDENT_COMPLETED"}

\* What a run that ends must leave behind: exactly one INCIDENT_COMPLETED
\* step, logged last, with the status of its outcome, and that status in
\* the record of its incident in the file.
EndsWithCompletion(logger, file) ==
    LET logs == logger.current_session_logs
        terminal == IF logger.outcome = "finished" THEN "COMPLETED" ELSE "ERROR"
    IN  /\ logs # <<>>
        /\ CompletionSteps(logs) = {Len(logs)}
        /\ logs[Len(logs)].status = terminal
        /\ \E i \in DOMAIN file :
               /\ file[i].incident_id = logger.current_incident_id
               /\ file[i].status = terminal

\* C28: at the step that ends a run of the background task, the run has
\* logged exactly one INCIDENT_COMPLETED step, as its last step, with status
\* COMPLETED when the stream finished and ERROR when it raised, and the
\* record of its incident in the file carries that status.
C28_RunEndsWithCompletion ==
    [][\A r \in Loggers :
           (loggers[r].pc # "done" /\ loggers'[r].pc = "done") =>
               EndsWithCompletion(loggers'[r], log_file')]_vars

\* C30: whenever no save is under way, the file holds exactly one record
\* for every incident id that one logger has logged for, and that record
\* holds all the steps the logger has logged.
C30_OneRecordPerIncident ==
    (\A r \in Loggers : loggers[r].pc \in {"idle", "stream", "done"}) =>
        \A r \in Loggers :
            (/\ loggers[r].current_session_logs # <<>>
             /\ \A q \in Loggers \ {r} :
                    loggers[q].current_incident_id # loggers[r].current_incident_id) =>
                /\ Cardinality(RecordsOf(loggers[r].current_incident_id)) = 1
                /\ \A i \in RecordsOf(loggers[r].current_incident_id) :
                       log_file[i].logs = loggers[r].current_session_logs

-----------------------------------------------------------------------------
(* The specifications *)

Init == AgentInit /\ LedgerInit /\ ToolIdle /\ QueryIdle /\ LiveInit /\ SreInit /\ LogInit

\* The DatabaseSREAgent loop.
Next == AgentNext

Spec == Init /\ [][Next]_vars

\* The trigger endpoint, its background tasks and their ledger.
LedgerStart ==
    /\ AgentInit
    /\ oracle = "free"
    /\ ssh_configured
    /\ LedgerInit
    /\ ToolIdle
    /\ QueryIdle
    /\ LiveInit
    /\ SreInit
    /\ LogInit

LedgerSpec == LedgerStart /\ [][LedgerNext]_vars

\* The remote-command tools under every configuration.
ToolStart ==
    /\ AgentInit
    /\ oracle = "free"
    /\ ssh_configured
    /\ LedgerInit
    /\ ToolInit
    /\ QueryIdle
    /\ LiveInit
    /\ SreInit
    /\ LogInit

ToolSpec == ToolStart /\ [][ToolNext]_vars

\* The query service over every timeline of the execution queried.
QueryStart ==
    /\ AgentInit
    /\ oracle = "free"
    /\ ssh_configured
    /\ LedgerInit
    /\ ToolIdle
    /\ QueryInit
    /\ LiveInit
    /\ SreInit
    /\ LogInit

QuerySpec == QueryStart /\ [][QueryNext]_vars

\* The live trigger endpoint and its background runs.
LiveStart ==
    /\ AgentInit
    /\ oracle = "free"
    /\ ssh_configured
    /\ LedgerInit
    /\ ToolIdle
    /\ QueryIdle
    /\ LiveInit
    /\ SreInit
    /\ LogInit

LiveSpec == LiveStart /\ [][LiveNext]_vars

\* The graph of SREAgent under every oracle.
SreStart ==
    /\ AgentInit
    /\ oracle = "free"
    /\ ssh_configured
    /\ LedgerInit
    /\ ToolIdle
    /\ QueryIdle
    /\ LiveInit
    /\ SreInit
    /\ LogInit

SreSpec == SreStart /\ [][SreNext]_vars

\* The incident log file under runs whose saves interleave.
LogStart ==
    /\ AgentInit
    /\ oracle = "free"
    /\ ssh_configured
    /\ LedgerInit
    /\ ToolIdle
    /\ QueryIdle
    /\ LiveInit
    /\ SreInit
    /\ LogInit

LogSpec == LogStart /\ [][LogNext]_vars

====
